---- MODULE Spec2Model ----
(***************************************************************************)
(* MORSEL segmentation post-processing (pymorsel).                         *)
(*                                                                         *)
(* Python strings are modelled as sequences of one-character strings, so   *)
(* that slicing, startswith/endswith, join, split and replace are computed *)
(* the way the code computes them.  A list of units is a sequence of such  *)
(* strings.  Python indices are 0-based; TLA+ sequences are 1-based, the   *)
(* variables idx keep the Python value.                                    *)
(***************************************************************************)
EXTENDS Integers, Sequences, FiniteSets, TLC

VARIABLES
    pc,             \* position of the running function
    err,            \* "none", or the name of the exception that was raised
    source,         \* parse_segmentation: segmentation.split(" ")
    idx,            \* index of the running loop (Python value, 0-based)
    segments,       \* parse_segmentation / _cleanup_prefixes: the segments
    word,           \* the surface form of the record
    compound_segmentations, \* process_segmentation: morsel_segmentation.split(" || "),
                    \* each part split on " "
    seg_units,      \* process_segmentation: the units of the record
    output_file,    \* lines written: records [word, segmentation]
    stem_file,      \* apply_bpe_to_segmentation: lines of the stem file
    stem_units,     \* apply_bpe_to_segmentation: the table, a function key -> units
    new_units       \* _apply_bpe_to_stems: the units being built

vars == <<pc, err, source, idx, segments, word, compound_segmentations,
          seg_units, output_file, stem_file, stem_units, new_units>>

---------------------------------------------------------------------------
(* Bounds and alphabets *)

MaxTokens == 3      \* decoder: tokens of a segmentation string
MaxSegments == 3    \* normalizer: segments of a sequence
MaxWord == 3        \* records: length of the word
MaxAnnTokens == 2   \* records: tokens of the annotation, over all its parts
MaxStemLines == 1   \* stem file: lines

Alphabet == {"a", "b"}

BASE_PREFIX == "_"
DOUBLE_PLUS == "#"    \* stands for the one-character string U+29FA
CONT == <<"@", "@">>

---------------------------------------------------------------------------
(* Python string primitives *)

Max(a, b) == IF a >= b THEN a ELSE b
Min(a, b) == IF a <= b THEN a ELSE b

\* s[n:]
From(s, n) == SubSeq(s, Min(n, Len(s)) + 1, Len(s))

\* s[:n] for n >= 0
Upto(s, n) == SubSeq(s, 1, Min(n, Len(s)))

\* s[:-n] for n >= 0; note that s[:-0] is s[:0], the empty string
DropLast(s, n) == IF n = 0 THEN <<>> ELSE SubSeq(s, 1, Max(Len(s) - n, 0))

\* s.startswith(p)
StartsWith(s, p) == Len(p) <= Len(s) /\ SubSeq(s, 1, Len(p)) = p

\* s.startswith(p, i)
StartsWithAt(s, p, i) == i <= Len(s) /\ StartsWith(From(s, i), p)

\* s.endswith(p)
EndsWith(s, p) == Len(p) <= Len(s) /\ SubSeq(s, Len(s) - Len(p) + 1, Len(s)) = p

\* "".join(strs)
RECURSIVE Concat(_)
Concat(strs) == IF strs = <<>> THEN <<>> ELSE Head(strs) \o Concat(Tail(strs))

\* " ".join(strs)
RECURSIVE JoinSp(_)
JoinSp(strs) ==
    IF strs = <<>> THEN <<>>
    ELSE IF Len(strs) = 1 THEN Head(strs)
    ELSE Head(strs) \o <<" ">> \o JoinSp(Tail(strs))

\* s.split(" ")
RECURSIVE SplitFrom(_, _)
SplitFrom(s, cur) ==
    IF s = <<>> THEN <<cur>>
    ELSE IF Head(s) = " " THEN <<cur>> \o SplitFrom(Tail(s), <<>>)
    ELSE SplitFrom(Tail(s), Append(cur, Head(s)))
SplitSp(s) == SplitFrom(s, <<>>)

\* s.replace(old, ""), old non-empty: leftmost non-overlapping occurrences
RECURSIVE Remove(_, _)
Remove(s, old) ==
    IF s = <<>> THEN <<>>
    ELSE IF StartsWith(s, old) THEN Remove(From(s, Len(old)), old)
    ELSE <<Head(s)>> \o Remove(Tail(s), old)

\* all strings over S of length lo..hi
Strings(S, lo, hi) == UNION {[1..n -> S] : n \in lo..hi}

---------------------------------------------------------------------------
(* process_segmentation.py: _end_delete *)

\* the while loop of the hard case; returns [segments, err]
RECURSIVE EndDeleteLoop(_, _)
EndDeleteLoop(segs, to_delete) ==
    IF to_delete = 0 THEN [segments |-> segs, err |-> "none"]
    ELSE IF segs = <<>> THEN [segments |-> segs, err |-> "NameError"]
    ELSE LET last_segment_len == Len(segs[Len(segs)]) - 1 IN
         IF to_delete >= last_segment_len
         THEN EndDeleteLoop(SubSeq(segs, 1, Len(segs) - 1),
                            to_delete - last_segment_len)
         ELSE [segments |-> [segs EXCEPT ![Len(segs)] = DropLast(@, to_delete)],
               err |-> "none"]

_end_delete(segment_text, segs) ==
    LET last_segment == segs[Len(segs)] IN
    IF Len(last_segment) > Len(segment_text)
    THEN IF EndsWith(last_segment, segment_text)
         THEN [segments |-> [segs EXCEPT ![Len(segs)] = DropLast(@, Len(segment_text))],
               err |-> "none"]
         ELSE [segments |-> segs, err |-> "AssertionError"]
    ELSE EndDeleteLoop(segs, Len(segment_text))

---------------------------------------------------------------------------
(* process_segmentation.py: parse_segmentation, one iteration of its loop. *)
(* Each branch returns [source, segments, err].                            *)

Raise(src, segs, e) == [source |-> src, segments |-> segs, err |-> e]
Ok(src, segs) == [source |-> src, segments |-> segs, err |-> "none"]

\* operator "_" or "+"
SegmentBranch(src, i, segs) == Ok(src, Append(segs, src[i + 1]))

\* operator "$"
EndBranch(src, i, segs) ==
    LET segment_text == Tail(src[i + 1]) IN
    IF segs = <<>> THEN Raise(src, segs, "AssertionError")
    ELSE IF segment_text = <<>> THEN Raise(src, segs, "IndexError")
    ELSE LET inner_operator == Head(segment_text)
             inner_segment_text == Tail(segment_text)
         IN  IF inner_operator = "-"
             THEN LET r == _end_delete(inner_segment_text, segs)
                  IN  [source |-> src, segments |-> r.segments, err |-> r.err]
             ELSE IF inner_operator = "+"
             THEN Ok(src, [segs EXCEPT ![Len(segs)] = @ \o inner_segment_text])
             ELSE Ok(src, segs)

\* StartDelete without the check of line 131
StartDelete_NoGuard(src, i, segs, segment_text, source_segment) ==
    LET source_segment_text == Tail(source_segment) IN
    IF ~StartsWith(source_segment_text, segment_text)
    THEN Raise(src, segs, "AssertionError")
    ELSE Ok([src EXCEPT ![i + 2] =
                <<Head(source_segment)>> \o From(source_segment_text, Len(segment_text))],
            segs)

\* operator "^", inner operator "-"
StartDelete(src, i, segs, segment_text, source_segment) ==
    LET source_segment_text == Tail(source_segment) IN
    IF ~(Len(segment_text) < Len(source_segment_text))
    THEN Raise(src, segs, "NotImplementedError")
    ELSE IF ~StartsWith(source_segment_text, segment_text)
    THEN Raise(src, segs, "AssertionError")
    ELSE Ok([src EXCEPT ![i + 2] =
                <<Head(source_segment)>> \o From(source_segment_text, Len(segment_text))],
            segs)

\* operator "^", inner operator "+"
StartAppend(src, i, segs, segment_text, source_segment) ==
    LET source_segment_text == Tail(source_segment) IN
    IF source_segment_text = <<>> THEN Raise(src, segs, "IndexError")
    ELSE Ok([src EXCEPT ![i + 2] =
                <<Head(source_segment)>> \o <<Head(source_segment_text)>>
                    \o source_segment_text],
            segs)

StartBranch(src, i, segs) ==
    LET target_idx == i + 1 IN
    IF ~(target_idx < Len(src)) THEN Raise(src, segs, "AssertionError")
    ELSE IF Tail(src[i + 1]) = <<>> THEN Raise(src, segs, "IndexError")
    ELSE LET operator == Head(Tail(src[i + 1]))
             segment_text == Tail(Tail(src[i + 1]))
             source_segment == src[target_idx + 1]
         IN  IF ~(StartsWith(source_segment, <<BASE_PREFIX>>)
                    \/ StartsWith(source_segment, <<"+">>))
             THEN Raise(src, segs, "AssertionError")
             ELSE IF operator = "-"
             THEN StartDelete(src, i, segs, segment_text, source_segment)
             ELSE IF operator = "+"
             THEN StartAppend(src, i, segs, segment_text, source_segment)
             ELSE Ok(src, segs)

\* the body of "for idx, segment in enumerate(source)"
ParseToken(src, i, segs) ==
    LET segment == src[i + 1] IN
    IF segment = <<>> THEN Raise(src, segs, "IndexError")
    ELSE LET operator == Head(segment) IN
         IF operator = BASE_PREFIX \/ operator = "+" THEN SegmentBranch(src, i, segs)
         ELSE IF operator = "$" THEN EndBranch(src, i, segs)
         ELSE IF operator = "^" THEN StartBranch(src, i, segs)
         ELSE Raise(src, segs, "ValueError")

\* the whole function: [segments, err]
RECURSIVE ParseLoop(_, _, _)
ParseLoop(src, i, segs) ==
    IF i >= Len(src)
    THEN IF segs = <<>> THEN [segments |-> segs, err |-> "AssertionError"]
         ELSE [segments |-> segs, err |-> "none"]
    ELSE LET r == ParseToken(src, i, segs) IN
         IF r.err # "none" THEN [segments |-> r.segments, err |-> r.err]
         ELSE ParseLoop(r.source, i + 1, r.segments)

parse_segmentation(segmentation) == ParseLoop(segmentation, 0, <<>>)

\* join_segmentation
RECURSIVE join_segmentation(_)
join_segmentation(units) ==
    IF units = <<>> THEN <<>>
    ELSE From(Head(units), 1) \o join_segmentation(Tail(units))

---------------------------------------------------------------------------
(* process_segmentation.py: _cleanup_prefixes *)

\* CleanupLoop setting found_base when it re-tags an affix
RECURSIVE CleanupLoop_FlagOnRetag(_, _)
CleanupLoop_FlagOnRetag(segs, found_base) ==
    IF segs = <<>> THEN <<>>
    ELSE LET segment == Head(segs)
             found == found_base \/ StartsWith(segment, <<BASE_PREFIX>>)
             retag == StartsWith(segment, <<"+">>) /\ ~found
             out == IF retag THEN <<DOUBLE_PLUS>> \o From(segment, 1) ELSE segment
         IN  <<out>> \o CleanupLoop_FlagOnRetag(Tail(segs), found \/ retag)

RECURSIVE CleanupLoop(_, _)
CleanupLoop(segs, found_base) ==
    IF segs = <<>> THEN <<>>
    ELSE LET segment == Head(segs)
             found == found_base \/ StartsWith(segment, <<BASE_PREFIX>>)
             out == IF StartsWith(segment, <<"+">>) /\ ~found
                    THEN <<DOUBLE_PLUS>> \o From(segment, 1)
                    ELSE segment
         IN  <<out>> \o CleanupLoop(Tail(segs), found)

_cleanup_prefixes(segs) == CleanupLoop(segs, FALSE)

---------------------------------------------------------------------------
(* process_segmentation.py: _add_hyphens, correct_segmentation *)

HYPHEN_UNIT == <<BASE_PREFIX, "-">>

\* called with idx < len(word); returns [new_units, idx]
RECURSIVE _add_hyphens(_, _, _)
_add_hyphens(nu, w, i) ==
    IF w[i + 1] = "-"
    THEN IF i + 1 >= Len(w)
         THEN [new_units |-> Append(nu, HYPHEN_UNIT), idx |-> i + 1]
         ELSE _add_hyphens(Append(nu, HYPHEN_UNIT), w, i + 1)
    ELSE [new_units |-> nu, idx |-> i]

\* the part after the loop over units
CorrectTail(nu, w, i) ==
    IF i < Len(w)
    THEN LET h == IF w[i + 1] = "-" THEN _add_hyphens(nu, w, i)
                  ELSE [new_units |-> nu, idx |-> i]
         IN  IF h.idx # Len(w)
             THEN [units |-> h.new_units, err |-> "ValueError"]
             ELSE [units |-> h.new_units, err |-> "none"]
    ELSE [units |-> nu, err |-> "none"]

\* the loop over units
RECURSIVE CorrectLoop(_, _, _, _)
CorrectLoop(units, w, nu, i) ==
    IF units = <<>> THEN CorrectTail(nu, w, i)
    ELSE LET unit == Head(units)
             unit_text == From(unit, 1)
         IN  IF ~StartsWithAt(w, unit_text, i)
             THEN IF i >= Len(w) THEN [units |-> nu, err |-> "IndexError"]
                  ELSE IF w[i + 1] = "-"
                  THEN LET h == _add_hyphens(nu, w, i)
                       IN  CorrectLoop(Tail(units), w, Append(h.new_units, unit),
                                       h.idx + Len(unit_text))
                  ELSE [units |-> nu, err |-> "ValueError"]
             ELSE CorrectLoop(Tail(units), w, Append(nu, unit), i + Len(unit_text))

correct_segmentation(units, w) == CorrectLoop(units, w, <<>>, 0)

---------------------------------------------------------------------------
(* process_segmentation.py: process_segmentation, the body of the loop    *)
(* over the lines of the analysis file                                     *)

\* one iteration of "for segmentation in compound_segmentations"
DecodeCompound(segmentation, units) ==
    LET r == parse_segmentation(segmentation) IN
    IF r.err # "none" THEN [units |-> units, err |-> r.err]
    ELSE [units |-> units \o _cleanup_prefixes(r.segments), err |-> "none"]

RECURSIVE DecodeCompounds(_, _)
DecodeCompounds(parts, units) ==
    IF parts = <<>> THEN [units |-> units, err |-> "none"]
    ELSE LET r == DecodeCompound(Head(parts), units) IN
         IF r.err # "none" THEN r ELSE DecodeCompounds(Tail(parts), r.units)

\* AssertJoined with assertions disabled
AssertJoined_Disabled(units, w) == "none"

\* the assert on lines 53-56
AssertJoined(units, w) ==
    IF join_segmentation(units) = w THEN "none" ELSE "AssertionError"

\* lines 48-56: [units, err]
Reconcile(units, w) ==
    IF join_segmentation(units) # w
    THEN LET c == correct_segmentation(units, w) IN
         IF c.err # "none" THEN c
         ELSE [units |-> c.units, err |-> AssertJoined(c.units, w)]
    ELSE [units |-> units, err |-> "none"]

\* the line printed on line 59
Line(w, units) == [word |-> w, segmentation |-> JoinSp(units)]

\* lines 38-59 for one record: the lines written, <<>> when the record raises
ProcessRecord(w, parts) ==
    LET d == DecodeCompounds(parts, <<>>) IN
    IF d.err # "none" THEN <<>>
    ELSE LET r == Reconcile(d.units, w) IN
         IF r.err # "none" THEN <<>> ELSE <<Line(w, r.units)>>

---------------------------------------------------------------------------
(* apply_bpe_to_segmentation.py *)

\* _format_bpe
_format_bpe(units) ==
    [i \in 1..Len(units) |->
        IF i < Len(units)
        THEN IF EndsWith(units[i], CONT) THEN units[i] ELSE units[i] \o CONT
        ELSE IF EndsWith(units[i], CONT) THEN DropLast(units[i], 2) ELSE units[i]]

\* _remove_bpe: [text, err]
_remove_bpe(units) ==
    IF EndsWith(units[Len(units)], CONT) THEN [text |-> <<>>, err |-> "AssertionError"]
    ELSE IF \E i \in 1..(Len(units) - 1) : ~EndsWith(units[i], CONT)
    THEN [text |-> <<>>, err |-> "AssertionError"]
    ELSE [text |-> Concat([i \in 1..Len(units) |->
                              IF i < Len(units) THEN DropLast(units[i], 2) ELSE units[i]]),
          err |-> "none"]

\* the dict assignment stem_units[key] = units; the table is a function
Put(table, key, units) ==
    [k \in DOMAIN table \cup {key} |-> IF k = key THEN units ELSE table[k]]

\* lines 20-26, one line of the stem file: [table, err]
LoadStemLine(table, line) ==
    LET units == _format_bpe(SplitSp(line))
        r == _remove_bpe(units)
    IN  IF r.err # "none" THEN [table |-> table, err |-> r.err]
        ELSE [table |-> Put(table, <<"_">> \o r.text, units), err |-> "none"]

\* _can_concatenate_right
_can_concatenate_right(unit) == EndsWith(unit, <<DOUBLE_PLUS>>) \/ EndsWith(unit, CONT)

\* StemLoop keeping the root marker of a root missing from the table
RECURSIVE StemLoop_KeepMarker(_, _, _)
StemLoop_KeepMarker(units, table, nu) ==
    IF units = <<>> THEN [new_units |-> nu, err |-> "none"]
    ELSE LET unit == Head(units) IN
         IF ~(Len(unit) > 1) THEN [new_units |-> nu, err |-> "AssertionError"]
         ELSE IF StartsWith(unit, <<"_">>)
         THEN IF unit \in DOMAIN table
              THEN StemLoop_KeepMarker(Tail(units), table, nu \o table[unit])
              ELSE StemLoop_KeepMarker(Tail(units), table, Append(nu, unit))
         ELSE IF StartsWith(unit, <<"+">>)
         THEN StemLoop_KeepMarker(Tail(units), table,
                                  Append(nu, <<DOUBLE_PLUS>> \o From(unit, 1)))
         ELSE IF StartsWith(unit, <<DOUBLE_PLUS>>)
         THEN StemLoop_KeepMarker(Tail(units), table,
                                  Append(nu, From(unit, 1) \o <<DOUBLE_PLUS>>))
         ELSE [new_units |-> nu, err |-> "ValueError"]

\* _apply_bpe_to_stems, the first loop: [new_units, err]
RECURSIVE StemLoop(_, _, _)
StemLoop(units, table, nu) ==
    IF units = <<>> THEN [new_units |-> nu, err |-> "none"]
    ELSE LET unit == Head(units) IN
         IF ~(Len(unit) > 1) THEN [new_units |-> nu, err |-> "AssertionError"]
         ELSE IF StartsWith(unit, <<"_">>)
         THEN IF unit \in DOMAIN table
              THEN StemLoop(Tail(units), table, nu \o table[unit])
              ELSE StemLoop(Tail(units), table, Append(nu, From(unit, 1)))
         ELSE IF StartsWith(unit, <<"+">>)
         THEN StemLoop(Tail(units), table, Append(nu, <<DOUBLE_PLUS>> \o From(unit, 1)))
         ELSE IF StartsWith(unit, <<DOUBLE_PLUS>>)
         THEN StemLoop(Tail(units), table, Append(nu, From(unit, 1) \o <<DOUBLE_PLUS>>))
         ELSE [new_units |-> nu, err |-> "ValueError"]

\* FinalPass adding no continuation marker
FinalPass_Skipped(nu) == nu

\* _apply_bpe_to_stems, the final pass; unit idx + 1 is read before it is changed
FinalPass(nu) ==
    [i \in 1..Len(nu) |->
        IF ~_can_concatenate_right(nu[i])
           /\ (i < Len(nu) /\ ~StartsWith(nu[i + 1], <<DOUBLE_PLUS>>))
        THEN nu[i] \o CONT
        ELSE nu[i]]

\* the string _check_final_segmentation compares with the word
StripMarkers(units) ==
    Remove(Remove(Remove(JoinSp(units), CONT \o <<" ">>),
                  <<DOUBLE_PLUS, " ">>),
           <<" ", DOUBLE_PLUS>>)

\* _check_final_segmentation
_check_final_segmentation(units, w) ==
    IF StripMarkers(units) = w THEN "none" ELSE "AssertionError"

---------------------------------------------------------------------------
(* Decoder: parse_segmentation run on one segmentation string *)

\* the texts of the tokens: one and two characters, equal and different
Texts == {<<"a">>, <<"a", "b">>, <<"b", "b">>}
SegmentTokens == {<<m>> \o t : m \in {BASE_PREFIX, "+"}, t \in Texts}
OperatorTokens ==
    {<<o, inner>> \o t : o \in {"$", "^"}, inner \in {"-", "+"}, t \in Texts}
        \cup {<<"?", "-", "a">>}

ParseSources == Strings(SegmentTokens \cup OperatorTokens, 1, MaxTokens)

Idle ==
    /\ word = <<>>
    /\ compound_segmentations = <<>>
    /\ seg_units = <<>>
    /\ output_file = <<>>
    /\ stem_file = <<>>
    /\ stem_units = <<>>
    /\ new_units = <<>>

InitParse ==
    /\ pc = "parse"
    /\ err = "none"
    /\ source \in ParseSources
    /\ idx = 0
    /\ segments = <<>>
    /\ Idle

Rest == <<word, compound_segmentations, seg_units, output_file, stem_file,
          stem_units, new_units>>

\* the loop of parse_segmentation is at a token whose operator is in ops
AtOperator(ops) ==
    /\ pc = "parse"
    /\ idx < Len(source)
    /\ source[idx + 1] # <<>>
    /\ Head(source[idx + 1]) \in ops

\* the effect of one iteration of the loop: the next index, or the exception
Iterate(r) ==
    /\ source' = r.source
    /\ segments' = r.segments
    /\ err' = r.err
    /\ pc' = IF r.err = "none" THEN "parse" ELSE "raised"
    /\ idx' = IF r.err = "none" THEN idx + 1 ELSE idx

\* lines 98-103
AppendSegment ==
    /\ AtOperator({BASE_PREFIX, "+"})
    /\ Iterate(ParseToken(source, idx, segments))
    /\ UNCHANGED Rest

\* lines 104-115
EndAccommodation ==
    /\ AtOperator({"$"})
    /\ Iterate(ParseToken(source, idx, segments))
    /\ UNCHANGED Rest

\* lines 116-144
StartAccommodation ==
    /\ AtOperator({"^"})
    /\ Iterate(ParseToken(source, idx, segments))
    /\ UNCHANGED Rest

\* lines 145-148
UnknownOperator ==
    /\ pc = "parse"
    /\ idx < Len(source)
    /\ source[idx + 1] # <<>>
    /\ Head(source[idx + 1]) \notin {BASE_PREFIX, "+", "$", "^"}
    /\ Iterate(ParseToken(source, idx, segments))
    /\ UNCHANGED Rest

\* lines 150-152
ParseReturn ==
    /\ pc = "parse"
    /\ idx = Len(source)
    /\ IF segments = <<>>
       THEN pc' = "raised" /\ err' = "AssertionError"
       ELSE pc' = "returned" /\ err' = "none"
    /\ UNCHANGED <<source, idx, segments>>
    /\ UNCHANGED Rest

NextParse ==
    \/ AppendSegment
    \/ EndAccommodation
    \/ StartAccommodation
    \/ UnknownOperator
    \/ ParseReturn

SpecParse == InitParse /\ [][NextParse]_vars

---------------------------------------------------------------------------
(* Properties of the decoder *)

\* the loop is about to process an accommodation token o inner X
AtAccommodation(o, inner) ==
    /\ pc = "parse"
    /\ idx < Len(source)
    /\ Len(source[idx + 1]) >= 2
    /\ source[idx + 1][1] = o
    /\ source[idx + 1][2] = inner

\* the inner text X of the token being processed
InnerText == From(source[idx + 1], 2)

\* a start-accommodation whose following token is a root or affix segment
AtStart(inner) ==
    /\ AtAccommodation("^", inner)
    /\ idx + 1 < Len(source)
    /\ source[idx + 2] # <<>>
    /\ Head(source[idx + 2]) \in {BASE_PREFIX, "+"}

FollowingKind == Head(source[idx + 2])
FollowingText == Tail(source[idx + 2])

\* s without its last n characters (n <= Len(s))
WithoutLast(s, n) == SubSeq(s, 1, Len(s) - n)

\* the last n characters of s
LastChars(s, n) == SubSeq(s, Len(s) - n + 1, Len(s))

\* C4: an end-deletion "$-X" that succeeds removes exactly the last len(X)
\* characters of the concatenated text of the segments decoded so far: the
\* segments before the cut are unchanged, the segment at the cut keeps a
\* non-empty text (or is untouched), every segment after the cut is discarded.
C4_EndDeletionResult ==
    [][ (AtAccommodation("$", "-") /\ pc' = "parse") =>
          LET n == Len(segments') IN
          /\ Len(join_segmentation(segments)) >= Len(InnerText)
          /\ join_segmentation(segments')
               = WithoutLast(join_segmentation(segments), Len(InnerText))
          /\ n <= Len(segments)
          /\ \A k \in 1..(n - 1) : segments'[k] = segments[k]
          /\ n > 0 => \/ segments'[n] = segments[n]
                      \/ /\ StartsWith(segments[n], segments'[n])
                         /\ Len(segments'[n]) >= 2 ]_vars

\* C9: an end-deletion "$-X" whose text X differs from the last len(X)
\* characters of the preceding segments' concatenated text raises an error.
C9_SubtractionMismatchRaises ==
    [][ (/\ AtAccommodation("$", "-")
         /\ segments # <<>>
         /\ \/ Len(join_segmentation(segments)) < Len(InnerText)
            \/ LastChars(join_segmentation(segments), Len(InnerText)) # InnerText)
        => pc' = "raised" ]_vars

\* C5: a start-append "^+X" before a root or affix segment with text T
\* rewrites that segment to its kind marker followed by X followed by T.
C5_StartAppendPrepends ==
    [][ AtStart("+") =>
          /\ pc' = "parse"
          /\ source'[idx + 2] = <<FollowingKind>> \o InnerText \o FollowingText ]_vars

\* C6: a start-deletion "^-X" before a root or affix segment with text T
\* raises NotImplementedError when len(X) > len(T), leaving the segments and
\* the source as they were; when it succeeds, T is not emptied and no other
\* token changes; when X is a proper prefix of T the following segment keeps
\* its kind and loses exactly X from its front, and is decoded as such.
C6_StartDeletionFailFast ==
    [][ /\ AtStart("-") =>
          /\ Len(InnerText) > Len(FollowingText) =>
                /\ pc' = "raised"
                /\ err' = "NotImplementedError"
                /\ source' = source
                /\ segments' = segments
          /\ pc' = "parse" =>
                /\ Tail(source'[idx + 2]) # <<>>
                /\ segments' = segments
                /\ Len(source') = Len(source)
                /\ \A k \in 1..Len(source) : k # idx + 2 => source'[k] = source[k]
          /\ (StartsWith(FollowingText, InnerText) /\ InnerText # FollowingText) =>
                /\ pc' = "parse"
                /\ source'[idx + 2]
                     = <<FollowingKind>> \o From(FollowingText, Len(InnerText))
        /\ (pc = "parse" /\ pc' = "parse" /\ Head(source[idx + 1]) \in {BASE_PREFIX, "+"})
             => segments' = Append(segments, source[idx + 1]) ]_vars

\* C6 witness: a start-deletion longer than the following segment's text has
\* raised NotImplementedError.
C6_Witness ==
    /\ pc = "raised"
    /\ err = "NotImplementedError"
    /\ idx + 1 < Len(source)
    /\ source[idx + 1][1] = "^"
    /\ Len(From(source[idx + 1], 2)) > Len(Tail(source[idx + 2]))
    /\ Tail(source[idx + 2]) # <<>>

---------------------------------------------------------------------------
(* Normalizer: _cleanup_prefixes applied to a segment sequence, then to    *)
(* its own result                                                          *)

CleanupUnits ==
    {<<m>> \o t : m \in {BASE_PREFIX, "+", DOUBLE_PLUS}, t \in {<<"a">>, <<"a", "b">>}}

InitCleanup ==
    /\ pc = "cleanup"
    /\ err = "none"
    /\ source = <<>>
    /\ idx = 0
    /\ segments \in Strings(CleanupUnits, 1, MaxSegments)
    /\ Idle

CleanupOnce ==
    /\ pc = "cleanup"
    /\ seg_units' = _cleanup_prefixes(segments)
    /\ pc' = "cleaned"
    /\ UNCHANGED <<err, source, idx, segments, word, compound_segmentations,
                   output_file, stem_file, stem_units, new_units>>

CleanupAgain ==
    /\ pc = "cleaned"
    /\ new_units' = _cleanup_prefixes(seg_units)
    /\ pc' = "recleaned"
    /\ UNCHANGED <<err, source, idx, segments, word, compound_segmentations,
                   seg_units, output_file, stem_file, stem_units>>

NextCleanup == CleanupOnce \/ CleanupAgain

SpecCleanup == InitCleanup /\ [][NextCleanup]_vars

\* C8: normalizing a normalized sequence changes nothing:
\* _cleanup_prefixes(_cleanup_prefixes(s)) = _cleanup_prefixes(s).
C8_CleanupIdempotent == pc = "recleaned" => new_units = seg_units

\* C8 witness: the first pass re-tagged at least two leading affixes of a
\* sequence that has a root, and the second pass has run.
C8_Witness ==
    /\ pc = "recleaned"
    /\ Cardinality({k \in 1..Len(segments) : seg_units[k] # segments[k]}) >= 2
    /\ \E k \in 1..Len(segments) : Head(segments[k]) = BASE_PREFIX

---------------------------------------------------------------------------
(* Stage one: process_segmentation on one record of the analysis file *)

\* the tokens of the records: roots and affixes "a" and "b", and the four
\* accommodations of "a"
RecordTokens ==
    {<<m, c>> : m \in {BASE_PREFIX, "+"}, c \in Alphabet}
        \cup {<<o, inner, "a">> : o \in {"$", "^"}, inner \in {"-", "+"}}

\* the annotations of n tokens: every way of cutting n tokens into parts
RECURSIVE AnnotationsOf(_)
AnnotationsOf(n) ==
    IF n = 0 THEN {<<>>}
    ELSE LET shorter == AnnotationsOf(n - 1) IN
         {Append(a, <<t>>) : a \in shorter, t \in RecordTokens}
         \cup {[a EXCEPT ![Len(a)] = Append(@, t)] :
                 a \in shorter \ {<<>>}, t \in RecordTokens}

Annotations == UNION {AnnotationsOf(n) : n \in 1..MaxAnnTokens}
Words == Strings(Alphabet \cup {"-"}, 0, MaxWord)

InitStage1 ==
    /\ pc = "decode"
    /\ err = "none"
    /\ source = <<>>
    /\ idx = 0
    /\ segments = <<>>
    /\ word \in Words
    /\ compound_segmentations \in Annotations
    /\ seg_units = <<>>
    /\ output_file = <<>>
    /\ stem_file = <<>>
    /\ stem_units = <<>>
    /\ new_units = <<>>

Others == <<source, segments, word, compound_segmentations, stem_file,
            stem_units, new_units>>

\* lines 43-46, one iteration
DecodeNextCompound ==
    /\ pc = "decode"
    /\ idx < Len(compound_segmentations)
    /\ LET r == DecodeCompound(compound_segmentations[idx + 1], seg_units) IN
        /\ seg_units' = r.units
        /\ err' = r.err
        /\ pc' = IF r.err = "none" THEN "decode" ELSE "raised"
        /\ idx' = IF r.err = "none" THEN idx + 1 ELSE idx
    /\ UNCHANGED <<output_file>>
    /\ UNCHANGED Others

\* lines 48-50
JoinWord ==
    /\ pc = "decode"
    /\ idx = Len(compound_segmentations)
    /\ pc' = IF join_segmentation(seg_units) # word THEN "correct" ELSE "write"
    /\ UNCHANGED <<err, idx, seg_units, output_file>>
    /\ UNCHANGED Others

\* line 51: correct_segmentation returns or raises
CorrectSegmentation ==
    /\ pc = "correct"
    /\ LET c == correct_segmentation(seg_units, word) IN
        /\ err' = c.err
        /\ pc' = IF c.err = "none" THEN "assert" ELSE "raised"
        /\ seg_units' = IF c.err = "none" THEN c.units ELSE seg_units
    /\ UNCHANGED <<idx, output_file>>
    /\ UNCHANGED Others

\* lines 52-56
CheckJoined ==
    /\ pc = "assert"
    /\ err' = AssertJoined(seg_units, word)
    /\ pc' = IF err' = "none" THEN "write" ELSE "raised"
    /\ UNCHANGED <<idx, seg_units, output_file>>
    /\ UNCHANGED Others

\* lines 58-59
WriteLine ==
    /\ pc = "write"
    /\ output_file' = Append(output_file, Line(word, seg_units))
    /\ pc' = "done"
    /\ UNCHANGED <<err, idx, seg_units>>
    /\ UNCHANGED Others

NextStage1 ==
    \/ DecodeNextCompound
    \/ JoinWord
    \/ CorrectSegmentation
    \/ CheckJoined
    \/ WriteLine

SpecStage1 == InitStage1 /\ [][NextStage1]_vars

KindMarkers == {BASE_PREFIX, "+", DOUBLE_PLUS}

\* the units of a written line
UnitsOf(line) == SplitSp(line.segmentation)

\* C1: every written line has units that each begin with a kind marker and
\* whose texts, marker stripped, concatenate to the line's word; a record that
\* raised wrote no line, and a record that finished wrote exactly its line.
C1_RoundTrip ==
    /\ \A k \in 1..Len(output_file) :
          /\ \A j \in 1..Len(UnitsOf(output_file[k])) :
                /\ UnitsOf(output_file[k])[j] # <<>>
                /\ Head(UnitsOf(output_file[k])[j]) \in KindMarkers
          /\ Concat([j \in 1..Len(UnitsOf(output_file[k])) |->
                        Tail(UnitsOf(output_file[k])[j])])
               = output_file[k].word
    /\ pc = "raised" => output_file = <<>>
    /\ pc = "done" => (Len(output_file) = 1 /\ output_file[1].word = word)

\* C1 witness: a line was written for a record that needed hyphen
\* reconciliation between two decoded units.
C1_Witness ==
    /\ pc = "done"
    /\ Len(output_file) = 1
    /\ Len(seg_units) >= 3
    /\ \E k \in 2..(Len(seg_units) - 1) :
           /\ seg_units[k] = HYPHEN_UNIT
           /\ seg_units[k - 1] # HYPHEN_UNIT /\ Len(seg_units[k - 1]) >= 2
           /\ seg_units[k + 1] # HYPHEN_UNIT /\ Len(seg_units[k + 1]) >= 2

\* the units decoded from the annotation, as passed to correct_segmentation
DecodedUnits == DecodeCompounds(compound_segmentations, <<>>).units

\* C7: whenever correct_segmentation returns, its result is the input units
\* in order with only hyphen segments inserted, and the concatenation of the
\* result's texts equals the word.
C7_ReconcilePostcondition ==
    pc = "assert" =>
        /\ SelectSeq(seg_units, LAMBDA u : u # HYPHEN_UNIT) = DecodedUnits
        /\ join_segmentation(seg_units) = word

---------------------------------------------------------------------------
(* Stage two: apply_bpe_to_segmentation on a stem file and one line of the *)
(* segmentation file written by stage one                                  *)

\* the lines stage one writes
Stage1Lines ==
    {l[1] : l \in {ProcessRecord(w, a) : w \in Words, a \in Annotations} \ {<<>>}}

\* lines of the stem file: the roots "a", "b", "aa" and "-" in one unit, "aa"
\* in two units with and without the "@@" that _format_bpe adds or trims
StemLines ==
    {<<"a">>, <<"b">>, <<"-">>, <<"a", "a">>,
     <<"a", " ", "a">>, <<"a", "@", "@", " ", "a">>,
     <<"a", "@", "@", " ", "a", "@", "@">>}
StemFiles == Strings(StemLines, 0, MaxStemLines)

InitMerge ==
    /\ pc = "load"
    /\ err = "none"
    /\ source = <<>>
    /\ idx = 0
    /\ segments = <<>>
    /\ word = <<>>
    /\ compound_segmentations = <<>>
    /\ seg_units = <<>>
    /\ output_file \in {<<l>> : l \in Stage1Lines}
    /\ stem_file \in StemFiles
    /\ stem_units = <<>>
    /\ new_units = <<>>

Fixed == <<source, segments, compound_segmentations, output_file, stem_file>>

\* lines 20-26, one iteration
LoadStem ==
    /\ pc = "load"
    /\ idx < Len(stem_file)
    /\ LET r == LoadStemLine(stem_units, stem_file[idx + 1]) IN
        /\ stem_units' = r.table
        /\ err' = r.err
        /\ pc' = IF r.err = "none" THEN "load" ELSE "raised"
        /\ idx' = IF r.err = "none" THEN idx + 1 ELSE idx
    /\ UNCHANGED <<word, seg_units, new_units>>
    /\ UNCHANGED Fixed

\* lines 31-33: orig_units is kept in seg_units
ReadLine ==
    /\ pc = "load"
    /\ idx = Len(stem_file)
    /\ word' = output_file[1].word
    /\ seg_units' = SplitSp(output_file[1].segmentation)
    /\ pc' = "apply"
    /\ UNCHANGED <<err, idx, stem_units, new_units>>
    /\ UNCHANGED Fixed

\* _apply_bpe_to_stems, lines 63-79
ApplyStems ==
    /\ pc = "apply"
    /\ LET r == StemLoop(seg_units, stem_units, <<>>) IN
        /\ new_units' = r.new_units
        /\ err' = r.err
        /\ pc' = IF r.err = "none" THEN "final" ELSE "raised"
    /\ UNCHANGED <<idx, word, seg_units, stem_units>>
    /\ UNCHANGED Fixed

\* _apply_bpe_to_stems, lines 81-90
AddContinuations ==
    /\ pc = "final"
    /\ new_units' = FinalPass(new_units)
    /\ pc' = "check"
    /\ UNCHANGED <<err, idx, word, seg_units, stem_units>>
    /\ UNCHANGED Fixed

\* line 35
CheckFinal ==
    /\ pc = "check"
    /\ err' = _check_final_segmentation(new_units, word)
    /\ pc' = IF err' = "none" THEN "done" ELSE "raised"
    /\ UNCHANGED <<idx, word, seg_units, stem_units, new_units>>
    /\ UNCHANGED Fixed

NextMerge ==
    \/ LoadStem
    \/ ReadLine
    \/ ApplyStems
    \/ AddContinuations
    \/ CheckFinal

SpecMerge == InitMerge /\ [][NextMerge]_vars

---------------------------------------------------------------------------
(* Properties of the merger *)

\* a unit as stage one writes it: a kind marker and a non-empty text free of
\* marker characters and spaces
WellFormedUnit(u) ==
    /\ Len(u) >= 2
    /\ Head(u) \in KindMarkers
    /\ \A k \in 2..Len(u) : u[k] \in Alphabet \cup {"-"}

\* the invariant of the Subword Unit Table: non-empty units, every non-final
\* unit ends with "@@", the final one does not, and the units without their
\* "@@" concatenate to the root text of the key
TableInvariant(table) ==
    \A key \in DOMAIN table :
        LET us == table[key] IN
        /\ Len(us) >= 1
        /\ \A i \in 1..(Len(us) - 1) : EndsWith(us[i], CONT) /\ Len(us[i]) > 2
        /\ ~EndsWith(us[Len(us)], CONT)
        /\ us[Len(us)] # <<>>
        /\ key = <<BASE_PREFIX>> \o
                   Concat([i \in 1..Len(us) |->
                              IF i < Len(us) THEN SubSeq(us[i], 1, Len(us[i]) - 2)
                              ELSE us[i]])

\* _apply_bpe_to_stems has returned the Final Token in new_units
Merged == pc \in {"check", "done"}

\* C2: for a line of well-formed units written by stage one and a table that
\* satisfies its invariant, neither the merge nor the verifier raises, and the
\* Final Token with its markers stripped as _check_final_segmentation strips
\* them is the word.
C2_MergeConsistency ==
    (/\ pc \in {"final", "check", "done", "raised"}
     /\ seg_units # <<>>
     /\ \A k \in 1..Len(seg_units) : WellFormedUnit(seg_units[k])
     /\ TableInvariant(stem_units))
    => /\ pc # "raised"
       /\ Merged => StripMarkers(new_units) = word

\* C3 as stated: every non-final unit of the Final Token ends with "@@" and
\* the final unit does not.
C3_EveryNonFinalMarked ==
    Merged =>
        /\ \A i \in 1..(Len(new_units) - 1) : EndsWith(new_units[i], CONT)
        /\ ~EndsWith(new_units[Len(new_units)], CONT)

\* C3 amended: every non-final unit of the Final Token ends with "@@" or with
\* the boundary marker, or is followed by a unit that begins with the
\* boundary marker; the final unit does not end with "@@".
C3_MarkerInvariant ==
    Merged =>
        /\ \A i \in 1..(Len(new_units) - 1) :
              \/ EndsWith(new_units[i], CONT)
              \/ EndsWith(new_units[i], <<DOUBLE_PLUS>>)
              \/ StartsWith(new_units[i + 1], <<DOUBLE_PLUS>>)
        /\ ~EndsWith(new_units[Len(new_units)], CONT)

\* C3 witness: a Final Token in which the final pass added "@@" to one unit
\* and left a non-final unit without it.
C3_Witness ==
    /\ Merged
    /\ \E i \in 1..(Len(new_units) - 1) :
          /\ EndsWith(new_units[i], CONT)
          /\ new_units[i] \notin {stem_units[k][j] :
                                    k \in DOMAIN stem_units, j \in {1}}
    /\ \E i \in 1..(Len(new_units) - 1) : ~EndsWith(new_units[i], CONT)

\* the hyphen segments of the line and the units of the Final Token whose
\* text is "-"
HyphenSegments == {k \in 1..Len(seg_units) : seg_units[k] = HYPHEN_UNIT}
PlainHyphens == {i \in 1..Len(new_units) : new_units[i] = <<"-">>}
MarkedHyphens == {i \in 1..Len(new_units) : new_units[i] = <<"-">> \o CONT}

\* C10 as stated: every hyphen segment is the unit "-" of the Final Token,
\* without continuation marker and without boundary marker.
C10_HyphenUnmarked ==
    Merged => Cardinality(PlainHyphens) = Cardinality(HyphenSegments)

\* C10 amended: every hyphen segment is one unit of the Final Token, "-" or
\* "-@@", never with a boundary marker; it is "-@@" exactly when it is not the
\* last unit and the next unit does not begin with the boundary marker.
C10_HyphenUnits ==
    Merged =>
        /\ Cardinality(PlainHyphens \cup MarkedHyphens) = Cardinality(HyphenSegments)
        /\ \A i \in PlainHyphens \cup MarkedHyphens :
              i \in MarkedHyphens
                <=> (i < Len(new_units)
                      /\ ~StartsWith(new_units[i + 1], <<DOUBLE_PLUS>>))

\* C10 witness: a Final Token with a hyphen unit marked "-@@" before a root
\* while the table has an entry for the hyphen.
C10_Witness ==
    /\ pc = "done"
    /\ MarkedHyphens # {}
    /\ HYPHEN_UNIT \in DOMAIN stem_units

====
